---- MODULE Spec2Model ----
(***************************************************************************)
(* Rally Racing Manager (src/app.py): the "Start race!" handler -- the     *)
(* per-entry performance model, the ranking, the prize allocation and the  *)
(* settlement against the store -- run by several Streamlit sessions over  *)
(* the one cached Snowflake connection of get_connection.                  *)
(*                                                                         *)
(* The store.  get_connection is cached per process, so every session     *)
(* issues its statements on the same Snowflake session: there is at most   *)
(* one open transaction, shared by all of them.  The connector runs with   *)
(* autocommit: a statement outside an explicit transaction is committed at *)
(* once; BEGIN opens a transaction and is ignored when one is open; COMMIT *)
(* and ROLLBACK end it (and do nothing when none is open); a DDL statement *)
(* commits the open transaction; a SELECT on the session sees the          *)
(* session's own uncommitted changes.  CARS and TEAMS rows are whatever    *)
(* the tables hold: the handler reads them without checking them.          *)
(*                                                                         *)
(* Units.  Money is in cents (NUMBER(12,2)).  Speeds are exact rationals   *)
(* over SpeedScale: 0.7 (tenths) * accel_factor (tenths) * handling_factor *)
(* (hundredths) * randomness (tenths) * breakdown factor (tenths).         *)
(* AVG_SPEED_KMH is in hundredths of km/h, FINISH_TIME_MIN in thousandths  *)
(* of a minute, RELIABILITY and the uniform draw in hundredths.            *)
(***************************************************************************)
EXTENDS Integers, Sequences, FiniteSets, TLC

\* ------------------------------------------------------------------ bounds
MaxSessions == 2
MaxCars == 3
MaxTeams == 3

Sessions == 1..MaxSessions
CarIds == 1..MaxCars
TeamIds == 1..MaxTeams

\* TEAM_ID NULL of CARS (an unassigned car)
NoTeam == 0

\* ------------------------------------------------------- program constants
FloorSpeed == 60
SpeedScale == 10 * 10 * 100 * 10 * 10
BaseFactor == 7
AccelBase == 14
AccelMin == 8
AccelMax == 12
HandlingBase == 90
NoPenalty == 10
PrizeSplit == <<6, 3, 1>>
InitBudget == 1000000

\* ------------------------------------------------------------------ helpers
Max(a, b) == IF a >= b THEN a ELSE b
Min(a, b) == IF a <= b THEN a ELSE b

\* <<q, r>> with a * b = q * c + r and 0 <= r < c, for a, b >= 0 and c > 0,
\* by doubling, so that no intermediate value exceeds 2 * c.
RECURSIVE MulDiv(_, _, _)
MulDiv(a, b, c) ==
  IF b = 0 THEN <<0, 0>>
  ELSE LET h  == MulDiv(a, b \div 2, c)
           q2 == 2 * h[1] + (IF 2 * h[2] >= c THEN 1 ELSE 0)
           r2 == IF 2 * h[2] >= c THEN 2 * h[2] - c ELSE 2 * h[2]
           ra == r2 + (a % c)
       IN  IF b % 2 = 0 THEN <<q2, r2>>
           ELSE IF ra >= c THEN <<q2 + (a \div c) + 1, ra - c>>
                ELSE <<q2 + (a \div c), ra>>

\* round(x) to the nearest integer of the rational n / d, d > 0, n >= 0
\* (an exact tie, which the binary value resolves either way, is taken up)
RoundDiv(n, d) ==
  IF 2 * (n % d) >= d THEN (n \div d) + 1 ELSE n \div d

\* ------------------------------------------------------- performance model
\* accel_factor = max(0.8, min(1.2, 1.4 - 0.1 * accel)), in tenths
AccelFactor(accel) == Max(AccelMin, Min(AccelMax, AccelBase - accel))

\* handling_factor = 0.9 + hand / 1000, in hundredths (hand a multiple of 10)
HandlingFactor(hand) == HandlingBase + (hand \div 10)

\* np.random.rand() > rel
BreaksDown(u, rel) == u > rel

\* np.random.uniform(0.7, 0.9) is drawn only when the car breaks down
PenaltyDraws(u, rel, Pens) == IF BreaksDown(u, rel) THEN Pens ELSE {NoPenalty}

\* effective_speed before the clamp, over SpeedScale
RawSpeed(car, noise, u, pen) ==
  BaseFactor * car.top * AccelFactor(car.accel) * HandlingFactor(car.hand)
    * noise * (IF BreaksDown(u, car.rel) THEN pen ELSE NoPenalty)

\* a mutant of Clamp: the upper bound is not applied
ClampNoCeiling(raw, top) == Max(FloorSpeed * SpeedScale, raw)

\* effective_speed = max(60.0, min(effective_speed, top)), over SpeedScale
Clamp(raw, top) == Max(FloorSpeed * SpeedScale, Min(raw, top * SpeedScale))

EffectiveSpeed(car, noise, u, pen) == Clamp(RawSpeed(car, noise, u, pen), car.top)

\* round(effective_speed, 2), in hundredths of km/h
AvgSpeed(eff) == RoundDiv(eff, SpeedScale \div 100)

\* round((distance / effective_speed) * 60.0, 3), in thousandths of a minute
FinishTime(distance, eff) ==
  LET qr == MulDiv(distance * 60 * 1000, SpeedScale, eff)
  IN  IF 2 * qr[2] >= eff THEN qr[1] + 1 ELSE qr[1]

\* the dict appended to results for one row of the cars frame
EntryResult(id, car, distance, noise, u, pen) ==
  LET eff == EffectiveSpeed(car, noise, u, pen)
  IN  [car |-> id, team |-> car.team, eff |-> eff, speed |-> AvgSpeed(eff),
       time |-> FinishTime(distance, eff), pos |-> 0, prize |-> 0]

\* ------------------------------------------------------------------ ranking
\* results.sort(key=FINISH_TIME_MIN) is stable: r goes after every element
\* whose time is not greater.  Mutant: r goes before the elements it ties with.
RECURSIVE InsertBeforeTies(_, _)
InsertBeforeTies(s, r) ==
  IF s = <<>> THEN <<r>>
  ELSE IF r.time <= Head(s).time THEN <<r>> \o s
       ELSE <<Head(s)>> \o InsertBeforeTies(Tail(s), r)

RECURSIVE InsertByTime(_, _)
InsertByTime(s, r) ==
  IF s = <<>> THEN <<r>>
  ELSE IF r.time < Head(s).time THEN <<r>> \o s
       ELSE <<Head(s)>> \o InsertByTime(Tail(s), r)

RECURSIVE SortPrefix(_, _)
SortPrefix(seq, n) ==
  IF n = 0 THEN <<>> ELSE InsertByTime(SortPrefix(seq, n - 1), seq[n])

SortByTime(seq) == SortPrefix(seq, Len(seq))

\* a mutant of AssignPositions: the rank by time, equal times sharing a rank
RankByTime(seq) ==
  [i \in 1..Len(seq) |->
     [seq[i] EXCEPT !.pos =
        1 + Cardinality({j \in 1..Len(seq) : seq[j].time < seq[i].time})]]

\* for i, r in enumerate(results, start=1): r["POSITION"] = i
AssignPositions(seq) == [i \in 1..Len(seq) |-> [seq[i] EXCEPT !.pos = i]]

\* ------------------------------------------------------------ prize allocator
\* round(prize_pool * p, 2) for a split p given in tenths: the nearest cent.
\* When the exact product lies midway between two cents the binary product
\* lies on either side of it (0.15 * 0.3 rounds to 0.04, 0.45 * 0.3 to 0.14),
\* so both cents are possible outcomes.
RoundCents(pool, tenths) ==
  LET n == pool * tenths
      q == n \div 10
      r == n % 10
  IN  IF r < 5 THEN {q} ELSE IF r > 5 THEN {q + 1} ELSE {q, q + 1}

\* prizes = [round(prize_pool * p, 2) for p in prize_split]
PrizeLists(pool) ==
  {<<a, b, c>> : a \in RoundCents(pool, PrizeSplit[1]),
                 b \in RoundCents(pool, PrizeSplit[2]),
                 c \in RoundCents(pool, PrizeSplit[3])}

\* r["PRIZE_USD"] = prizes[POSITION - 1] if POSITION <= len(prizes) else 0.0
PrizeOf(pos, prizes) == IF pos <= Len(prizes) THEN prizes[pos] ELSE 0

AssignPrizes(seq, prizes) ==
  [i \in 1..Len(seq) |-> [seq[i] EXCEPT !.prize = PrizeOf(seq[i].pos, prizes)]]

\* the results list after the loop: sorted, positioned, with prizes
Ranked(seq, prizes) == AssignPrizes(AssignPositions(SortByTime(seq)), prizes)

\* ------------------------------------------------------ per-team aggregation
RECURSIVE SortedSeq(_)
SortedSeq(S) ==
  IF S = {} THEN <<>>
  ELSE LET m == CHOOSE x \in S : \A y \in S : x <= y
       IN  <<m>> \o SortedSeq(S \ {m})

\* the rows of merged: one per TEAM_ID of the results, in key order
Merged(seq) == SortedSeq({seq[i].team : i \in 1..Len(seq)})

\* df.groupby("TEAM_ID")["CAR_ID"].count()
EntryCount(seq, t) == Cardinality({i \in 1..Len(seq) : seq[i].team = t})

\* a mutant of FeeTotal: the fee is charged once per team
FeeOnce(n, fee) == fee

\* fees["fee_total"] = fees["entries"] * fee
FeeTotal(n, fee) == n * fee

\* df.groupby("TEAM_ID")["PRIZE_USD"].sum()
RECURSIVE PrizeTotal(_, _)
PrizeTotal(seq, t) ==
  IF seq = <<>> THEN 0
  ELSE (IF Head(seq).team = t THEN Head(seq).prize ELSE 0) + PrizeTotal(Tail(seq), t)

\* delta = float(row["PRIZE_USD"] - row["fee_total"])
Delta(seq, fee, t) == PrizeTotal(seq, t) - FeeTotal(EntryCount(seq, t), fee)

\* a mutant of ApplyDelta: an absolute write of the computed amount
OverwriteBudget(budget, delta) == delta

\* UPDATE TEAMS SET BUDGET = BUDGET + %s
ApplyDelta(budget, delta) == budget + delta

\* -------------------------------------------------------------------- state
VARIABLES
  cars,       \* CARS: CAR_ID -> [top, accel, rel, hand, team]
  work,       \* the tables as the shared connection's session sees them
  committed,  \* the tables as committed (what a ROLLBACK returns to)
  txnOpen,    \* the shared session has an open explicit transaction
  pc,         \* per Streamlit session: position in the "Start race!" handler
  race,       \* per session: the widget values [distance, fee, pool]
  entries,    \* per session: the rows of the cars frame
  res,        \* per session: the results list
  k           \* per session: index of the running loop

vars == <<cars, work, committed, txnOpen, pc, race, entries, res, k>>

\* the statements run between try: and the except clause
Statements == {"begin", "insRace", "insResults", "updTeams", "commit"}

\* positions at which the results list is complete
Simulated == Statements \cup {"rollback", "ok", "failed"}

NoRace == [distance |-> 0, fee |-> 0, pool |-> 0]

EmptyStore ==
  [races |-> {}, results |-> {}, budget |-> [t \in TeamIds |-> InitBudget]]

\* ---------------------------------------------------------------- the store
\* SELECT ... FROM CARS C JOIN TEAMS T ON T.TEAM_ID = C.TEAM_ID, rows taken
\* in CAR_ID order
Eligible(tbl) ==
  LET ids == SortedSeq({c \in CarIds : tbl[c].team \in TeamIds})
  IN  [i \in 1..Len(ids) |->
         [id |-> ids[i], top |-> tbl[ids[i]].top, accel |-> tbl[ids[i]].accel,
          rel |-> tbl[ids[i]].rel, hand |-> tbl[ids[i]].hand,
          team |-> tbl[ids[i]].team]]

\* a mutant of NoEligible: the empty frame is not rejected
NeverEmpty(rows) == FALSE

\* if cars.empty
NoEligible(rows) == Len(rows) = 0

\* the row of INSERT INTO RACES; RACE_UID is the session's uuid4
RaceRow(s) ==
  [uid |-> s, distance |-> race[s].distance, fee |-> race[s].fee,
   pool |-> race[s].pool]

\* the row of INSERT INTO RACE_RESULTS
ResultRow(s, r) ==
  [uid |-> s, car |-> r.car, team |-> r.team, time |-> r.time,
   speed |-> r.speed, pos |-> r.pos, prize |-> r.prize]

\* run(sql) of a DML statement: inside the open transaction it changes the
\* session's view only; with none open (autocommit) it is committed at once
Exec(newWork) ==
  /\ work' = newWork
  /\ committed' = IF txnOpen THEN committed ELSE newWork

\* the reads of the other tabs, issued on the same connection
GetTeams == work.budget
ListRaces == work.races
ListRaceResults(uid) == {r \in work.results : r.uid = uid}

\* what the Teams and History tabs of any session can show
Visible ==
  [races |-> ListRaces,
   results |-> UNION {ListRaceResults(r.uid) : r \in ListRaces},
   budget |-> GetTeams]

\* ------------------------------------------------------------------ actions
\* the button handler up to the eligibility check
StartRace(s, Dists, Fees, Pools) ==
  /\ pc[s] = "idle"
  /\ \E d \in Dists, f \in Fees, p \in Pools :
       LET rows == Eligible(cars)
       IN  IF NoEligible(rows)
           THEN /\ pc' = [pc EXCEPT ![s] = "noEntrants"]
                /\ UNCHANGED <<race, entries, res, k>>
           ELSE /\ pc' = [pc EXCEPT ![s] = "simulate"]
                /\ race' = [race EXCEPT ![s] = [distance |-> d, fee |-> f, pool |-> p]]
                /\ entries' = [entries EXCEPT ![s] = rows]
                /\ res' = [res EXCEPT ![s] = <<>>]
                /\ k' = [k EXCEPT ![s] = 1]
  /\ UNCHANGED <<cars, work, committed, txnOpen>>

\* one iteration of the loop over cars.iterrows(); the last one is followed
\* by the sort, the positions and the prizes
SimulateEntry(s, Noises, Us, Pens) ==
  /\ pc[s] = "simulate"
  /\ \E noise \in Noises, u \in Us :
     \E pen \in PenaltyDraws(u, entries[s][k[s]].rel, Pens) :
       LET row == entries[s][k[s]]
           r   == EntryResult(row.id, row, race[s].distance, noise, u, pen)
           all == Append(res[s], r)
       IN  /\ TRUE
           /\ IF k[s] < Len(entries[s])
              THEN /\ res' = [res EXCEPT ![s] = all]
                   /\ k' = [k EXCEPT ![s] = k[s] + 1]
                   /\ pc' = pc
              ELSE /\ \E prizes \in PrizeLists(race[s].pool) :
                        res' = [res EXCEPT ![s] = Ranked(all, prizes)]
                   /\ k' = [k EXCEPT ![s] = 1]
                   /\ pc' = [pc EXCEPT ![s] = "begin"]
  /\ UNCHANGED <<cars, work, committed, txnOpen, race, entries>>

\* run("BEGIN"): opens a transaction on the shared session; a BEGIN inside an
\* open transaction is ignored
Begin(s) ==
  /\ pc[s] = "begin"
  /\ txnOpen' = TRUE
  /\ pc' = [pc EXCEPT ![s] = "insRace"]
  /\ UNCHANGED <<cars, work, committed, race, entries, res, k>>

InsertRace(s) ==
  /\ pc[s] = "insRace"
  /\ Exec([work EXCEPT !.races = @ \cup {RaceRow(s)}])
  /\ pc' = [pc EXCEPT ![s] = "insResults"]
  /\ k' = [k EXCEPT ![s] = 1]
  /\ UNCHANGED <<cars, txnOpen, race, entries, res>>

\* one iteration of: for r in results: run("INSERT INTO RACE_RESULTS ...")
InsertResult(s) ==
  /\ pc[s] = "insResults"
  /\ Exec([work EXCEPT !.results = @ \cup {ResultRow(s, res[s][k[s]])}])
  /\ IF k[s] < Len(res[s])
     THEN /\ k' = [k EXCEPT ![s] = k[s] + 1]
          /\ pc' = pc
     ELSE /\ k' = [k EXCEPT ![s] = 1]
          /\ pc' = [pc EXCEPT ![s] = "updTeams"]
  /\ UNCHANGED <<cars, txnOpen, race, entries, res>>

\* one iteration of: for _, row in merged.iterrows(): run("UPDATE TEAMS ...")
UpdateTeam(s) ==
  /\ pc[s] = "updTeams"
  /\ LET rows == Merged(res[s])
         t    == rows[k[s]]
     IN  /\ Exec([work EXCEPT !.budget[t] =
                    ApplyDelta(@, Delta(res[s], race[s].fee, t))])
         /\ IF k[s] < Len(rows)
            THEN /\ k' = [k EXCEPT ![s] = k[s] + 1]
                 /\ pc' = pc
            ELSE /\ k' = [k EXCEPT ![s] = 1]
                 /\ pc' = [pc EXCEPT ![s] = "commit"]
  /\ UNCHANGED <<cars, txnOpen, race, entries, res>>

\* run("COMMIT"): commits whatever the shared session has pending
Commit(s) ==
  /\ pc[s] = "commit"
  /\ committed' = work
  /\ txnOpen' = FALSE
  /\ pc' = [pc EXCEPT ![s] = "ok"]
  /\ UNCHANGED <<cars, work, race, entries, res, k>>

\* the statement about to run raises: control passes to the except clause
Fail(s) ==
  /\ pc[s] \in Statements
  /\ pc' = [pc EXCEPT ![s] = "rollback"]
  /\ UNCHANGED <<cars, work, committed, txnOpen, race, entries, res, k>>

\* run("ROLLBACK"): discards whatever the shared session has pending
Rollback(s) ==
  /\ pc[s] = "rollback"
  /\ work' = committed
  /\ txnOpen' = FALSE
  /\ pc' = [pc EXCEPT ![s] = "failed"]
  /\ UNCHANGED <<cars, committed, race, entries, res, k>>

\* init_schema_if_missing(), run at the top of every rerun of every session:
\* a DDL statement commits the transaction open on its session (with none
\* open the CREATE ... IF NOT EXISTS statements change nothing)
InitSchema ==
  /\ txnOpen
  /\ committed' = work
  /\ txnOpen' = FALSE
  /\ UNCHANGED <<cars, work, pc, race, entries, res, k>>

\* ------------------------------------------------------------------- inputs
\* the form defaults of the Cars tab, rounded to the model's units
NominalCar(team) ==
  [top |-> 280, accel |-> 4, rel |-> 92, hand |-> 90, team |-> team]

\* two cars in two teams, the others unassigned
TwoTeamCars == [c \in CarIds |-> NominalCar(IF c <= 2 THEN c ELSE NoTeam)]

\* three cars: team 1 enters two, team 2 one, the other teams none
SharedTeamCars ==
  [c \in CarIds |-> NominalCar(IF c > 3 THEN NoTeam ELSE IF c = 2 THEN 2 ELSE 1)]

\* stored attribute rows: a fast reliable car, a slow car that always breaks
\* down, a car rated below the floor pace, a row outside the domains
Profiles ==
  { [top |-> 300, accel |-> 2, rel |-> 100, hand |-> 100],
    [top |-> 100, accel |-> 10, rel |-> 0, hand |-> 50],
    [top |-> 50, accel |-> 5, rel |-> 50, hand |-> 50],
    [top |-> 0, accel |-> 5, rel |-> 150, hand |-> 50] }

\* team assignments: nobody assigned, car 1 unassigned, teams alternating
Assignments ==
  { [c \in CarIds |-> NoTeam],
    [c \in CarIds |-> IF c = 1 THEN NoTeam ELSE 1],
    [c \in CarIds |-> ((c - 1) % 2) + 1] }

StoredCars ==
  { [c \in CarIds |-> [top |-> f[c].top, accel |-> f[c].accel, rel |-> f[c].rel,
                       hand |-> f[c].hand, team |-> a[c]]] :
      f \in [CarIds -> Profiles], a \in Assignments }

NominalDists == {100}
NominalFees == {100000}
NominalPools == {1000000}
NominalNoises == {10}
NominalUs == {0, 95}
CalmUs == {0}
NominalPens == {8}

WideDists == {10, 100}
WideNoises == {-1, 8, 12}
WideUs == {0, 75}
WidePens == {7}

WideFees == {0, 100000}
WidePools == {0, 6, 15, 1000000, 100000000}

\* ----------------------------------------------------------- specifications
InitWith(tbl) ==
  /\ cars = tbl
  /\ work = EmptyStore
  /\ committed = EmptyStore
  /\ txnOpen = FALSE
  /\ pc = [s \in Sessions |-> "idle"]
  /\ race = [s \in Sessions |-> NoRace]
  /\ entries = [s \in Sessions |-> <<>>]
  /\ res = [s \in Sessions |-> <<>>]
  /\ k = [s \in Sessions |-> 1]

Settle(s) ==
  \/ Begin(s)
  \/ InsertRace(s)
  \/ InsertResult(s)
  \/ UpdateTeam(s)
  \/ Commit(s)
  \/ Fail(s)
  \/ Rollback(s)

\* every session races the nominal cars, concurrently, over the one connection
Init == InitWith(TwoTeamCars)

Next ==
  \/ \E s \in Sessions : StartRace(s, NominalDists, NominalFees, NominalPools)
  \/ \E s \in Sessions : SimulateEntry(s, NominalNoises, CalmUs, NominalPens)
  \/ \E s \in Sessions : Settle(s)
  \/ InitSchema

Spec == Init /\ [][Next]_vars

\* one session, any stored cars, any draws, up to the first write
InitSim == \E tbl \in StoredCars : InitWith(tbl)

NextSim ==
  \/ StartRace(1, WideDists, NominalFees, NominalPools)
  \/ SimulateEntry(1, WideNoises, WideUs, WidePens)
  \/ Begin(1)
  \/ InsertRace(1)

SpecSim == InitSim /\ [][NextSim]_vars

\* one session, nominal cars, any fee and prize pool
InitPay == InitWith(SharedTeamCars)

NextPay ==
  \/ StartRace(1, NominalDists, WideFees, WidePools)
  \/ SimulateEntry(1, NominalNoises, NominalUs, NominalPens)
  \/ Settle(1)
  \/ InitSchema

SpecPay == InitPay /\ [][NextPay]_vars

\* ------------------------------------------------------- claims: vocabulary
\* all RACE_RESULTS rows of the settlement of session s
AllRows(s) == {ResultRow(s, res[s][i]) : i \in 1..Len(res[s])}

\* the rows a table state holds for the race of session s
RaceRowsIn(st, s) == {r \in st.races : r.uid = s}
ResultRowsIn(st, s) == {r \in st.results : r.uid = s}

\* the sum, over the sessions of S, of the budget delta of team t
RECURSIVE SumDeltas(_, _)
SumDeltas(S, t) ==
  IF S = {} THEN 0
  ELSE LET s == CHOOSE x \in S : TRUE
       IN  Delta(res[s], race[s].fee, t) + SumDeltas(S \ {s}, t)

\* the sum of PRIZE_USD over a set of RACE_RESULTS rows
RECURSIVE SumPrizes(_)
SumPrizes(rows) ==
  IF rows = {} THEN 0
  ELSE LET r == CHOOSE x \in rows : TRUE
       IN  r.prize + SumPrizes(rows \ {r})

\* sessions that have issued no budget update yet
BeforeUpdates(s) ==
  \/ pc[s] \in {"idle", "noEntrants", "simulate", "begin", "insRace", "insResults"}
  \/ pc[s] = "updTeams" /\ k[s] = 1

\* a table state shows, of every settlement, all of it or nothing
AllOrNothing(st) ==
  \E S \in SUBSET Sessions :
    /\ \A s \in S : RaceRowsIn(st, s) = {RaceRow(s)} /\ ResultRowsIn(st, s) = AllRows(s)
    /\ \A s \in Sessions \ S : RaceRowsIn(st, s) = {} /\ ResultRowsIn(st, s) = {}
    /\ \A t \in TeamIds : st.budget[t] = InitBudget + SumDeltas(S, t)

\* the attributes of the stored row of a result
RowOf(s, r) == entries[s][CHOOSE n \in 1..Len(entries[s]) : entries[s][n].id = r.car]
EntryIndex(s, r) == CHOOSE n \in 1..Len(entries[s]) : entries[s][n].id = r.car

\* ------------------------------------------------------------------- claims
\* C1: once a settlement has failed and run its ROLLBACK, the store holds no
\* RACES row and no RACE_RESULTS row of that race, and (no other settlement
\* having started) every team's budget is what it was before.
C1_FailedSettlementLeavesNoTrace ==
  \A s \in Sessions :
    pc[s] = "failed" =>
      /\ RaceRowsIn(committed, s) = {} /\ ResultRowsIn(committed, s) = {}
      /\ RaceRowsIn(work, s) = {} /\ ResultRowsIn(work, s) = {}
      /\ (\A o \in Sessions \ {s} : pc[o] = "idle") =>
           \A t \in TeamIds : /\ committed.budget[t] = InitBudget
                              /\ work.budget[t] = InitBudget

\* C2: whatever the team list, the race history and the race results return,
\* and whatever is committed, shows every settlement entirely or not at all.
C2_NoPartialSettlementVisible ==
  /\ AllOrNothing(Visible)
  /\ AllOrNothing(committed)

\* C3: when every settlement that has touched a budget has committed, every
\* team's budget is its initial budget plus the deltas of all of them.
C3_ConcurrentDeltasCompose ==
  (\A s \in Sessions : pc[s] = "ok" \/ BeforeUpdates(s)) =>
    \A t \in TeamIds :
      /\ committed.budget[t] = InitBudget + SumDeltas({s \in Sessions : pc[s] = "ok"}, t)
      /\ work.budget[t] = committed.budget[t]

C3_Witness ==
  /\ \A s \in {1, 2} : pc[s] = "ok"
  /\ \E t \in TeamIds :
       /\ Delta(res[1], race[1].fee, t) # 0
       /\ Delta(res[2], race[2].fee, t) # 0

\* C4: after a committed settlement every team's budget is its old budget
\* plus the prizes of its stored results minus fee times the number of its
\* stored results; a team without a result keeps its budget.
C4_BudgetDeltaExact ==
  pc[1] = "ok" =>
    \A t \in TeamIds :
      LET mine == {r \in ResultRowsIn(committed, 1) : r.team = t}
      IN  /\ committed.budget[t] =
               InitBudget + SumPrizes(mine) - Cardinality(mine) * race[1].fee
          /\ (mine = {} => committed.budget[t] = InitBudget)

C4_Witness ==
  /\ pc[1] = "ok"
  /\ race[1].fee > 0 /\ race[1].pool > 0
  /\ \E t \in TeamIds : Cardinality({r \in ResultRowsIn(committed, 1) : r.team = t}) = 2
  /\ \E t \in TeamIds : {r \in ResultRowsIn(committed, 1) : r.team = t} = {}

\* C5: the results of a race are one per team-assigned car and their
\* positions are exactly 1..N, each once.
C5_PositionsArePermutation ==
  pc[1] \in Simulated =>
    LET n == Cardinality({c \in CarIds : cars[c].team \in TeamIds})
    IN  /\ n > 0
        /\ Len(res[1]) = n
        /\ {res[1][i].car : i \in 1..n} = {c \in CarIds : cars[c].team \in TeamIds}
        /\ {res[1][i].pos : i \in 1..n} = 1..n

C5_Witness ==
  /\ pc[1] \in Simulated
  /\ Len(res[1]) >= 3
  /\ \E i, j \in 1..Len(res[1]) : i # j /\ res[1][i].time = res[1][j].time

\* C6: a smaller finish time means a smaller position and conversely a
\* smaller position never has a greater time; results with equal times keep
\* the order of their rows in the cars frame.
C6_PositionFollowsTime ==
  pc[1] \in Simulated =>
    \A i, j \in 1..Len(res[1]) :
      /\ res[1][i].time < res[1][j].time => res[1][i].pos < res[1][j].pos
      /\ res[1][i].pos < res[1][j].pos => res[1][i].time <= res[1][j].time
      /\ (res[1][i].time = res[1][j].time
            /\ EntryIndex(1, res[1][i]) < EntryIndex(1, res[1][j]))
           => res[1][i].pos < res[1][j].pos

C6_Witness ==
  /\ pc[1] \in Simulated
  /\ \E i, j, l \in 1..Len(res[1]) :
       /\ i # j /\ res[1][i].time = res[1][j].time
       /\ res[1][l].time < res[1][i].time

\* C7: no prize is negative and the prizes of one race sum to at most the
\* prize pool.
C7_PrizesWithinPool ==
  pc[1] \in Simulated =>
    /\ \A i \in 1..Len(res[1]) : res[1][i].prize >= 0
    /\ SumPrizes(AllRows(1)) <= race[1].pool

\* C8 as claimed: for every positive stored top speed the effective speed
\* lies in [60.0, top].
C8_SpeedWithinFloorAndTop ==
  \A i \in 1..Len(res[1]) :
    RowOf(1, res[1][i]).top > 0 =>
      /\ res[1][i].eff >= FloorSpeed * SpeedScale
      /\ res[1][i].eff <= RowOf(1, res[1][i]).top * SpeedScale

\* C8 as amended: the effective speed lies in [60.0, max(60.0, top)], for
\* every stored top speed; it lies in [60.0, top] when top >= 60.
C8_SpeedWithinFloorAndRaisedTop ==
  \A i \in 1..Len(res[1]) :
    /\ res[1][i].eff >= FloorSpeed * SpeedScale
    /\ res[1][i].eff <= Max(FloorSpeed, RowOf(1, res[1][i]).top) * SpeedScale

C8_Witness ==
  \E i, j, l \in 1..Len(res[1]) :
    /\ RowOf(1, res[1][i]).top > FloorSpeed
    /\ res[1][i].eff = RowOf(1, res[1][i]).top * SpeedScale
    /\ RowOf(1, res[1][j]).top > FloorSpeed
    /\ RowOf(1, res[1][j]).rel = 0
    /\ res[1][j].eff = FloorSpeed * SpeedScale
    /\ res[1][l].eff > FloorSpeed * SpeedScale
    /\ res[1][l].eff < RowOf(1, res[1][l]).top * SpeedScale

\* C9: with no team-assigned car the race is reported as failed and the
\* request writes nothing: the store stays as it was.
C9_NoEntrantsNoWrite ==
  /\ Eligible(cars) = <<>> => pc[1] \in {"idle", "noEntrants"}
  /\ pc[1] = "noEntrants" =>
       /\ Eligible(cars) = <<>>
       /\ work = EmptyStore /\ committed = EmptyStore /\ ~txnOpen

C9_Witness == pc[1] = "noEntrants"

\* C10: when a row read at race start has a top speed that is not positive
\* or a reliability outside [0, 1], no draw is made and no write attempted.
C10_InvalidRejectedBeforeDraw ==
  (\E c \in CarIds : /\ cars[c].team \in TeamIds
                     /\ (cars[c].top <= 0 \/ cars[c].rel < 0 \/ cars[c].rel > 100)) =>
    \A s \in Sessions :
      /\ res[s] = <<>>
      /\ pc[s] \notin Statements
      /\ RaceRowsIn(work, s) = {}

====
